---- MODULE Spec2Model ----
(***************************************************************************)
(* A model of serato2rekordbox: the crate file decoder (crateParser.ts),   *)
(* the Serato tag decoders (trackMetaDataParser.ts) and the crate scan and *)
(* playlist tree builder of the command line program (cli.ts).             *)
(*                                                                         *)
(* Conventions.  A byte buffer is a sequence of numbers 0..255; the byte   *)
(* at JavaScript offset i is buf[i + 1].  A JavaScript string is the       *)
(* sequence of its UTF-16 code units.  A function that can throw returns a *)
(* record whose field ok is FALSE when it throws.                          *)
(***************************************************************************)
EXTENDS Integers, Sequences, FiniteSets, TLC

VARIABLES
    \* crateParser.ts, one call of parseCrate
    cpc,        \* "start", "decoded", "done"
    cpath,      \* the path given to parseCrate
    cdata,      \* the bytes of the file
    citems,     \* the top-level items the file was written from (history)
    cnodes,     \* what parseSectionNodes returns for the root section
    ccrate,     \* what parseCrate returns
    \* cli.ts, one run of the program
    pc,                 \* "list", "scan", "generate", "build", "export", "done"
    opts,               \* the options -c, -f, -t and -m
    unreadable,         \* the resolved track paths whose file cannot be loaded
    trackScanProgress,  \* the tracks of trackList attempted so far
    trackMeta,          \* the sparse array: index -> TrackMetaData
    collection,         \* the Map: index -> TrackMetaData
    xmlPlaylists,       \* the paths behind the TRACK keys of each playlist node
    files,              \* the Subcrates directory: file name -> contents
    crateNameList,
    crateScanProgress,  \* the crates of crateNameList attempted so far
    crateList,
    trackList,
    trackPathIndex,     \* the Map: track path -> index (its keys: DOMAIN)
    errors,
    folders,            \* the Map: key -> folder (a position in treeNodes)
    treeNodes,          \* the folder and playlist objects, in creation order
    placed,             \* the crates of crateList placed in the tree so far
    includedSeen,       \* the paths that passed the track filter (history)
    playlistOf,         \* the playlist created for each placed crate (history)
    \* trackMetaDataParser.ts, one call of parseSeratoBeatGrid
    bpc,        \* "start", "done"
    bview,      \* the bytes of the frame
    bcount,     \* the marker count the frame was written with (history)
    bresult,    \* what parseSeratoBeatGrid returns
    \* trackMetaDataParser.ts, one call of parseSeratorMarkers2
    mpc,        \* "start", "done"
    mview,      \* the bytes of the frame
    melems,     \* the elements the frame was written from (history)
    mresult,    \* what parseSeratorMarkers2 returns
    \* trackMetaDataParser.ts and rekordboxExporter.ts, one track
    tpc,        \* "frames", "returned", "exported"
    tframes,    \* geobObjects: the GEOB frames of the file
    ti,         \* the frames the forEach has handled so far
    tresult,    \* the TrackMetaData record `result`
    txml,       \* the TRACK element generateXml builds from the record
    \* one call of a decoding function of crateParser.ts
    fpc,        \* "start", "done"
    farg,       \* the argument: payload bytes, or a file name
    fres,       \* what the call returns
    \* trackMetaDataParser.ts, the element loop of parseSeratorMarkers2
    lpc,        \* "loop", "ended" (the loop was left), "thrown"
    lpayload,   \* the bytes of the decoded payload
    lelems,     \* the elements the payload was written from (history)
    ltail,      \* what follows the elements: "nul", "end", "name" (history)
    loffset,    \* offset
    lelements   \* elements

crateVars == <<cpc, cpath, cdata, citems, cnodes, ccrate>>

scanVars == <<pc, opts, files, crateNameList, crateScanProgress, crateList,
              trackList, trackPathIndex, errors, folders, treeNodes, placed,
              includedSeen, playlistOf, unreadable, trackScanProgress, trackMeta,
              collection, xmlPlaylists>>

beatVars == <<bpc, bview, bcount, bresult>>

m2Vars == <<mpc, mview, melems, mresult>>

trackVars == <<tpc, tframes, ti, tresult, txml>>

fnVars == <<fpc, farg, fres>>

loopVars == <<lpc, lpayload, lelems, ltail, loffset, lelements>>

vars == <<crateVars, scanVars, beatVars, m2Vars, trackVars, fnVars, loopVars>>

----------------------------------------------------------------------------
(* Strings and bytes *)

\* "1.0/Serato ScratchLive Crate"
VersionString ==
    <<49, 46, 48, 47, 83, 101, 114, 97, 116, 111, 32, 83, 99, 114, 97, 116,
      99, 104, 76, 105, 118, 101, 32, 67, 114, 97, 116, 101>>

T_vrsn == <<118, 114, 115, 110>>
T_tvcn == <<116, 118, 99, 110>>
T_tvcw == <<116, 118, 99, 119>>
T_ptrk == <<112, 116, 114, 107>>
T_brev == <<98, 114, 101, 118>>
T_otrk == <<111, 116, 114, 107>>
T_osrt == <<111, 115, 114, 116>>

SubSeqFrom(s, from) == SubSeq(s, from, Len(s))

\* DataView.getUint8 / getUint16 / getUint32 (big-endian) on a whole buffer,
\* at a JavaScript offset that the caller has found to be in range.  U32 is
\* used only where U32Huge is false: a value of 2^31 or more is handled by
\* its callers as larger than every buffer length.
U8(buf, off) == buf[off + 1]
U16(buf, off) == buf[off + 1] * 256 + buf[off + 2]
U32Huge(buf, off) == buf[off + 1] >= 128
U32(buf, off) ==
    ((buf[off + 1] * 256 + buf[off + 2]) * 256 + buf[off + 3]) * 256 + buf[off + 4]

----------------------------------------------------------------------------
(* crateParser.ts *)

NullValue == [kind |-> "null", str |-> <<>>, num |-> 0]
StringValue(s) == [kind |-> "string", str |-> s, num |-> 0]
NumberValue(n) == [kind |-> "number", str |-> <<>>, num |-> n]

Thrown(e) == [ok |-> FALSE, err |-> e]

\* parseSection: the section at `offset` of the whole buffer `data`.  Each
\* DataView is bounded by the buffer only: new DataView(data, offset) needs
\* offset <= byteLength, the header reads need 8 bytes, and
\* new DataView(data, offset + 8, sectionSize) needs the payload to end
\* inside the buffer.
parseSection(data, offset) ==
    IF offset > Len(data) \/ offset + 8 > Len(data)
    THEN Thrown("RangeError")
    ELSE IF U32Huge(data, offset + 4) THEN Thrown("RangeError")
    ELSE LET sectionSize == U32(data, offset + 4) IN
         IF offset + 8 + sectionSize > Len(data)
         THEN Thrown("RangeError")
         ELSE [ok |-> TRUE,
               type |-> SubSeq(data, offset + 1, offset + 4),
               offset |-> offset,
               dataOffset |-> offset + 8,
               dataSize |-> sectionSize]

\* parseString16(data, size) on the view of `size` bytes at dataOffset:
\* getUint16(i) throws when the two bytes do not both lie inside the view.
RECURSIVE String16Loop(_, _, _, _, _)
String16Loop(data, dataOffset, size, i, chars) ==
    IF ~(i < size) THEN [ok |-> TRUE, value |-> chars]
    ELSE IF i + 2 > size THEN Thrown("RangeError")
    ELSE LET charCode == U16(data, dataOffset + i) IN
         IF charCode = 0 THEN [ok |-> TRUE, value |-> chars]
         ELSE String16Loop(data, dataOffset, size, i + 2, Append(chars, charCode))

parseString16(data, dataOffset, size) == String16Loop(data, dataOffset, size, 0, <<>>)

\* The bitwise OR of two non-negative numbers.
RECURSIVE BitOr(_, _)
BitOr(a, b) ==
    IF a = 0 THEN b
    ELSE IF b = 0 THEN a
    ELSE (IF a % 2 = 1 \/ b % 2 = 1 THEN 1 ELSE 0) + 2 * BitOr(a \div 2, b \div 2)

\* The signed 32-bit number whose bytes are lanes[1] (least significant) to
\* lanes[4].
ToInt32(lanes) ==
    (IF lanes[4] >= 128 THEN lanes[4] - 256 ELSE lanes[4]) * 16777216
    + lanes[3] * 65536 + lanes[2] * 256 + lanes[1]

\* parseInt8: value |= getUint8(i) << (i * 8), in 32-bit arithmetic: the
\* shift count is taken modulo 32, so byte i is ORed into byte (i mod 4) of
\* the 32-bit value, and the result is a signed 32-bit number.
RECURSIVE Int8Loop(_, _, _, _, _)
Int8Loop(data, dataOffset, size, i, lanes) ==
    IF ~(i < size) THEN ToInt32(lanes)
    ELSE LET lane == ((i * 8) % 32) \div 8 + 1 IN
         Int8Loop(data, dataOffset, size, i + 1,
                  [lanes EXCEPT ![lane] = BitOr(@, U8(data, dataOffset + i))])

parseInt8(data, dataOffset, size) == Int8Loop(data, dataOffset, size, 0, <<0, 0, 0, 0>>)

StringTags == {T_vrsn, T_tvcn, T_tvcw, T_ptrk}

\* A Node, with the byte range of the section it was decoded from (the
\* Section's dataOffset and dataSize, which the program drops).
MkNode(sub, value, children) ==
    [type |-> sub.type, value |-> value, children |-> children,
     dataOffset |-> sub.dataOffset, dataSize |-> sub.dataSize]

\* parseSectionNodes(section): the loop over the sections from `offset` up to
\* the section's end, each read from the whole buffer (section.data.buffer).
RECURSIVE NodesLoop(_, _, _, _)
NodesLoop(data, offset, end, nodes) ==
    IF ~(offset < end) THEN [ok |-> TRUE, nodes |-> nodes]
    ELSE LET subSection == parseSection(data, offset) IN
         IF ~subSection.ok THEN subSection
         ELSE LET next == offset + 8 + subSection.dataSize IN
              IF subSection.type \in StringTags
              THEN LET s == parseString16(data, subSection.dataOffset, subSection.dataSize) IN
                   IF ~s.ok THEN s
                   ELSE NodesLoop(data, next, end,
                            Append(nodes, MkNode(subSection, StringValue(s.value), <<>>)))
              ELSE IF subSection.type = T_brev
              THEN NodesLoop(data, next, end,
                       Append(nodes, MkNode(subSection,
                           NumberValue(parseInt8(data, subSection.dataOffset, subSection.dataSize)),
                           <<>>)))
              ELSE LET children == NodesLoop(data, subSection.dataOffset,
                                       subSection.dataOffset + subSection.dataSize, <<>>) IN
                   IF ~children.ok THEN children
                   ELSE NodesLoop(data, next, end,
                            Append(nodes, MkNode(subSection, NullValue, children.nodes)))

parseSectionNodes(data, section) ==
    NodesLoop(data, section.dataOffset, section.dataOffset + section.dataSize, <<>>)

\* expectNodeType without its check.
expectNodeType_NoCheck(node, type) == [ok |-> TRUE, node |-> node]

\* expectNodeType: throws unless the node has the type.
expectNodeType(node, type) ==
    IF node.type # type THEN Thrown("ParseError") ELSE [ok |-> TRUE, node |-> node]

\* findNode looking at the first node of the list only.
findNode_FirstOnly(nodeList, type) ==
    IF nodeList # <<>> /\ nodeList[1].type = type
    THEN [found |-> TRUE, node |-> nodeList[1]]
    ELSE [found |-> FALSE]

\* findNode: the first node of the type, or null.
findNode(nodeList, type) ==
    LET hits == {i \in 1..Len(nodeList) : nodeList[i].type = type} IN
    IF hits = {} THEN [found |-> FALSE]
    ELSE [found |-> TRUE, node |-> nodeList[CHOOSE i \in hits : \A j \in hits : i <= j]]

findNodeOrThrow(nodeList, type) ==
    LET node == findNode(nodeList, type) IN
    IF ~node.found THEN Thrown("ParseError") ELSE [ok |-> TRUE, node |-> node.node]

\* String.prototype.split(sep) for a non-empty separator.
RECURSIVE SplitLoop(_, _, _, _)
SplitLoop(s, sep, cur, parts) ==
    IF s = <<>> THEN Append(parts, cur)
    ELSE IF Len(s) >= Len(sep) /\ SubSeq(s, 1, Len(sep)) = sep
    THEN SplitLoop(SubSeqFrom(s, Len(sep) + 1), sep, <<>>, Append(parts, cur))
    ELSE SplitLoop(Tail(s), sep, Append(cur, Head(s)), parts)

Split(s, sep) == SplitLoop(s, sep, <<>>, <<>>)

Slash == <<47>>
Dot == <<46>>
PercentPercent == <<37, 37>>

\* path.split('/').pop()?.split('.').shift()
filenameWithoutExtension(path) ==
    LET segs == Split(path, Slash) IN Head(Split(segs[Len(segs)], Dot))

\* The loop of parseCrate over nodes[i], i >= 1.
RECURSIVE TracksLoop(_, _, _)
TracksLoop(nodes, i, tracks) ==
    IF ~(i < Len(nodes)) THEN [ok |-> TRUE, tracks |-> tracks]
    ELSE IF nodes[i + 1].type = T_otrk
    THEN LET p == findNodeOrThrow(nodes[i + 1].children, T_ptrk) IN
         IF ~p.ok THEN p
         ELSE TracksLoop(nodes, i + 1, Append(tracks, [path |-> p.node.value.str]))
    ELSE TracksLoop(nodes, i + 1, tracks)

\* parseCrate after the file was read: from the decoded top-level nodes to
\* the Crate.
crateFromNodes(path, nodes) ==
    IF Len(nodes) = 0 THEN Thrown("ParseError")
    ELSE LET version == expectNodeType(nodes[1], T_vrsn) IN
         IF ~version.ok THEN version
         ELSE IF version.node.value # StringValue(VersionString) THEN Thrown("ParseError")
         ELSE LET t == TracksLoop(nodes, 1, <<>>) IN
              IF ~t.ok THEN t
              ELSE [ok |-> TRUE,
                    name |-> Split(filenameWithoutExtension(path), PercentPercent),
                    version |-> version.node.value.str,
                    tracks |-> t.tracks]

rootSection(data) ==
    [type |-> "root", offset |-> 0, dataOffset |-> 0, dataSize |-> Len(data)]

parseCrate(path, data) ==
    LET nodes == parseSectionNodes(data, rootSection(data)) IN
    IF ~nodes.ok THEN nodes ELSE crateFromNodes(path, nodes.nodes)

----------------------------------------------------------------------------
(* Crate files: how the bytes that parseSection reads back are laid out *)

U32BE(n) == <<(n \div 16777216) % 256, (n \div 65536) % 256, (n \div 256) % 256, n % 256>>

RECURSIVE Str16(_)
Str16(s) ==
    IF s = <<>> THEN <<>> ELSE <<Head(s) \div 256, Head(s) % 256>> \o Str16(Tail(s))

\* A section whose header declares `declared` payload bytes.
SecDeclared(tag, declared, payload) == tag \o U32BE(declared) \o payload
Sec(tag, payload) == SecDeclared(tag, Len(payload), payload)

RECURSIVE Concat(_)
Concat(ss) == IF ss = <<>> THEN <<>> ELSE Head(ss) \o Concat(Tail(ss))

PathA == <<97, 49>>             \* "a1"
PathB == <<98, 50>>             \* "b2"
PathX == <<120, 47, 97, 49>>    \* "x/a1"

\* The top-level items a crate file is written from.  kind: "version" (the
\* vrsn node with the expected string), "track" (an otrk node holding a ptrk
\* child, path), "other" (a well-formed node of another tag), "bad"
\* (anything else).
Item(kind, path, bytes) == [kind |-> kind, path |-> path, bytes |-> bytes]

CrateItems ==
    << Item("version", <<>>, Sec(T_vrsn, Str16(VersionString))),
       Item("track", PathA, Sec(T_otrk, Sec(T_ptrk, Str16(PathA)))),
       \* a track entry with other children around its path
       Item("track", PathB,
            Sec(T_otrk, Sec(T_tvcn, Str16(<<107>>)) \o Sec(T_ptrk, Str16(PathB))
                        \o Sec(T_brev, <<0, 1>>))),
       \* a container of another tag that holds a track entry
       Item("other", <<>>, Sec(T_osrt, Sec(T_otrk, Sec(T_ptrk, Str16(PathX))))),
       \* a string node of another tag whose value is the version string
       Item("other", <<>>, Sec(T_tvcn, Str16(VersionString))),
       \* a vrsn node one character short of the expected string
       Item("bad", <<>>, Sec(T_vrsn, Str16(SubSeq(VersionString, 1, 27)))),
       \* a track entry without a path
       Item("bad", <<>>, Sec(T_otrk, Sec(T_tvcn, Str16(<<107>>)))),
       \* a track entry of 8 bytes whose ptrk child declares 8 payload bytes:
       \* they lie after the track entry, inside the file when an item follows
       Item("bad", <<>>, Sec(T_otrk, SecDeclared(T_ptrk, 8, <<>>))),
       \* a section that declares more bytes than the file holds
       Item("bad", <<>>, SecDeclared(T_osrt, 4096, <<0, 0>>)) >>

MaxTopLevel == 4

ItemLists == UNION {[1..n -> 1..Len(CrateItems)] : n \in 0..MaxTopLevel}

ItemBytes(items) == Concat([i \in 1..Len(items) |-> CrateItems[items[i]].bytes])

\* "/s/A%%B.crate"
CratePaths ==
    { <<47, 115, 47, 65, 37, 37, 66, 46, 99, 114, 97, 116, 101>> }

----------------------------------------------------------------------------
(* One call of parseCrate *)

NoResult == [ok |-> FALSE, err |-> "none"]

\* The variables of parseCrate's own run, when no such run is modelled.
CrateIdle ==
    /\ cpc = "idle"
    /\ cpath = <<>>
    /\ cdata = <<>>
    /\ citems = <<>>
    /\ cnodes = NoResult
    /\ ccrate = NoResult

\* The variables of the program's run, when no such run is modelled.
ScanIdle ==
    /\ pc = "idle"
    /\ opts = <<>>
    /\ files = <<>>
    /\ crateNameList = <<>>
    /\ crateScanProgress = 0
    /\ crateList = <<>>
    /\ trackList = <<>>
    /\ trackPathIndex = <<>>
    /\ errors = <<>>
    /\ folders = <<>>
    /\ treeNodes = <<>>
    /\ placed = 0
    /\ includedSeen = <<>>
    /\ playlistOf = <<>>
    /\ unreadable = {}
    /\ trackScanProgress = 0
    /\ trackMeta = <<>>
    /\ collection = <<>>
    /\ xmlPlaylists = <<>>

\* The variables of the tag decoders' own runs, when no such run is modelled.
BeatIdle ==
    /\ bpc = "idle"
    /\ bview = <<>>
    /\ bcount = 0
    /\ bresult = NoResult

M2Idle ==
    /\ mpc = "idle"
    /\ mview = <<>>
    /\ melems = <<>>
    /\ mresult = NoResult

TrackIdle ==
    /\ tpc = "idle"
    /\ tframes = <<>>
    /\ ti = 0
    /\ tresult = NoResult
    /\ txml = NoResult

FnIdle ==
    /\ fpc = "idle"
    /\ farg = <<>>
    /\ fres = NoResult

LoopIdle ==
    /\ lpc = "idle"
    /\ lpayload = <<>>
    /\ lelems = <<>>
    /\ ltail = "end"
    /\ loffset = 0
    /\ lelements = <<>>

InitCrate ==
    /\ ScanIdle
    /\ LoopIdle
    /\ BeatIdle
    /\ M2Idle
    /\ TrackIdle
    /\ FnIdle
    /\ cpc = "start"
    /\ cpath \in CratePaths
    /\ citems \in ItemLists
    /\ cdata = ItemBytes(citems)
    /\ cnodes = NoResult
    /\ ccrate = NoResult

\* parseCrate up to the decoded node list (crateParser.ts, parseCrate's call
\* of parseSectionNodes on the root section).
DecodeSections ==
    /\ cpc = "start"
    /\ cnodes' = parseSectionNodes(cdata, rootSection(cdata))
    /\ cpc' = "decoded"
    /\ UNCHANGED <<cpath, cdata, citems, ccrate, scanVars, beatVars, m2Vars, trackVars, fnVars, loopVars>>

\* The rest of parseCrate: the Crate, or the error thrown.
InterpretNodes ==
    /\ cpc = "decoded"
    /\ ccrate' = parseCrate(cpath, cdata)
    /\ cpc' = "done"
    /\ UNCHANGED <<cpath, cdata, citems, cnodes, scanVars, beatVars, m2Vars, trackVars, fnVars, loopVars>>

NextCrate == DecodeSections \/ InterpretNodes

SpecCrate == InitCrate /\ [][NextCrate]_vars

----------------------------------------------------------------------------
(* Claims about parseCrate and the section decoder *)

FirstNodeIsVersion(nodes) ==
    /\ Len(nodes) > 0
    /\ nodes[1].type = T_vrsn
    /\ nodes[1].value = StringValue(VersionString)

\* C1: parseCrate fails whenever the decoded top-level node list is empty, or
\* its first node is not tagged vrsn, or that node's value is not exactly the
\* expected version string; a Crate it returns has exactly that version.
C1_VersionGate ==
    cpc = "done" =>
        /\ (cnodes.ok /\ ~FirstNodeIsVersion(cnodes.nodes)) => ~ccrate.ok
        /\ ccrate.ok => ccrate.version = VersionString

\* A file whose first node is a vrsn node with another value was rejected.
C1_Witness ==
    /\ cpc = "done"
    /\ cnodes.ok
    /\ Len(cnodes.nodes) > 1
    /\ cnodes.nodes[1].type = T_vrsn
    /\ cnodes.nodes[1].value # StringValue(VersionString)
    /\ ~ccrate.ok

WellFormedItems(items) ==
    /\ Len(items) >= 1
    /\ CrateItems[items[1]].kind = "version"
    /\ \A i \in 2..Len(items) : CrateItems[items[i]].kind # "bad"

RECURSIVE ExpectedTracks(_)
ExpectedTracks(items) ==
    IF items = <<>> THEN <<>>
    ELSE (IF CrateItems[Head(items)].kind = "track"
          THEN <<[path |-> CrateItems[Head(items)].path]>> ELSE <<>>)
         \o ExpectedTracks(Tail(items))

\* C2: for a well-formed file, the Crate's tracks are the paths of the
\* top-level track entries, in file order; other nodes contribute nothing.
C2_TracksInOrder ==
    (cpc = "done" /\ WellFormedItems(citems)) =>
        /\ ccrate.ok
        /\ ccrate.tracks = ExpectedTracks(citems)

\* Two different track entries with a node of another tag between them.
C2_Witness ==
    /\ cpc = "done"
    /\ WellFormedItems(citems)
    /\ Len(citems) = 4
    /\ CrateItems[citems[2]].kind = "track"
    /\ CrateItems[citems[3]].kind = "other"
    /\ CrateItems[citems[4]].kind = "track"
    /\ citems[2] # citems[4]
    /\ ccrate.ok
    /\ Len(ccrate.tracks) = 2

\* Every node of the list lies inside the bytes lo..hi of its enclosing
\* section, header included, and so do its children inside its own payload.
RECURSIVE NodesInside(_, _, _)
NodesInside(nodes, lo, hi) ==
    \A i \in 1..Len(nodes) :
        /\ lo <= nodes[i].dataOffset - 8
        /\ nodes[i].dataOffset + nodes[i].dataSize <= hi
        /\ NodesInside(nodes[i].children, nodes[i].dataOffset,
                       nodes[i].dataOffset + nodes[i].dataSize)

\* C3: a section that declares more bytes than remain in its enclosing
\* section makes decoding fail, so that no decoded node covers bytes outside
\* its enclosing section.
C3_SectionsInsideParent ==
    (cpc # "start" /\ cnodes.ok) => NodesInside(cnodes.nodes, 0, Len(cdata))

----------------------------------------------------------------------------
(* cli.ts: the crate scan and the playlist tree *)

\* Array.prototype.join(sep)
RECURSIVE Join(_, _)
Join(parts, sep) ==
    IF parts = <<>> THEN <<>>
    ELSE IF Len(parts) = 1 THEN parts[1]
    ELSE parts[1] \o sep \o Join(Tail(parts), sep)

\* String.prototype.includes and endsWith
Includes(s, sub) == \E i \in 0..(Len(s) - Len(sub)) : SubSeq(s, i + 1, i + Len(sub)) = sub
EndsWith(s, suffix) ==
    Len(s) >= Len(suffix) /\ SubSeq(s, Len(s) - Len(suffix) + 1, Len(s)) = suffix

\* The order of Array.prototype.sort() on strings: by code units.
RECURSIVE StrLess(_, _)
StrLess(a, b) ==
    IF b = <<>> THEN FALSE
    ELSE IF a = <<>> THEN TRUE
    ELSE IF Head(a) # Head(b) THEN Head(a) < Head(b)
    ELSE StrLess(Tail(a), Tail(b))

RECURSIVE SortStrings(_)
SortStrings(S) ==
    IF S = {} THEN <<>>
    ELSE LET m == CHOOSE x \in S : \A y \in S \ {x} : StrLess(x, y) IN
         <<m>> \o SortStrings(S \ {m})

\* Map.prototype.set on a Map held as a function.
MapSet(map, key, value) ==
    [k \in DOMAIN map \cup {key} |-> IF k = key THEN value ELSE map[k]]

EmptyMap == <<>>

\* An option that was not given, or its value.
NotGiven == [given |-> FALSE, value |-> <<>>]
Given(v) == [given |-> TRUE, value |-> v]

DotCrate == <<46, 99, 114, 97, 116, 101>>                        \* ".crate"
KeyROOT == <<82, 79, 79, 84>>                                    \* "ROOT"
SubcratesDir == <<47, 115, 47, 83, 117, 98, 99, 114, 97, 116, 101, 115, 47>>  \* "/s/Subcrates/"

\* The filter of crateNameList.
crateNameSelected(crateName, o) ==
    IF ~EndsWith(crateName, DotCrate) THEN FALSE
    ELSE IF o.includeCratesOnly.given
            /\ ~(\E i \in 1..Len(o.includeCratesOnly.value) :
                    o.includeCratesOnly.value[i] = crateName)
    THEN FALSE
    ELSE IF o.crateFilter.given /\ o.crateFilter.value # <<>>
            /\ ~Includes(crateName, o.crateFilter.value)
    THEN FALSE
    ELSE TRUE

\* The body of the track loop after the filter: a path not yet in the index
\* is pushed to trackList and indexed at trackList.length - 1.
includeTrack_NoLookup(track, st) ==
    [trackList |-> Append(st.trackList, track),
     trackPathIndex |-> MapSet(st.trackPathIndex, track.path, Len(st.trackList))]

includeTrack(track, st) ==
    IF track.path \notin DOMAIN st.trackPathIndex
    THEN LET pushed == Append(st.trackList, track) IN
         [trackList |-> pushed,
          trackPathIndex |-> MapSet(st.trackPathIndex, track.path, Len(pushed) - 1)]
    ELSE st

trackFiltered(track, o) ==
    o.trackFilter.given /\ o.trackFilter.value # <<>>
    /\ ~Includes(track.path, o.trackFilter.value)

\* for (const track of crate.tracks) { ... }
RECURSIVE scanTracks(_, _, _)
scanTracks(tracks, o, st) ==
    IF tracks = <<>> THEN st
    ELSE IF trackFiltered(Head(tracks), o) THEN scanTracks(Tail(tracks), o, st)
    ELSE scanTracks(Tail(tracks), o, includeTrack(Head(tracks), st))

Folder(name) == [type |-> "Folder", name |-> name, children |-> <<>>, tracks |-> <<>>]
Playlist(name, tracks) ==
    [type |-> "Playlist", name |-> name, children |-> <<>>, tracks |-> tracks]

\* getParentFolder(path) on the Map folders and the objects treeNodes, both
\* in st; returns them as it leaves them, and the folder.
RECURSIVE getParentFolder(_, _)
getParentFolder(path, st) ==
    IF Len(path) = 0
    THEN [folders |-> st.folders, treeNodes |-> st.treeNodes, folder |-> st.folders[KeyROOT]]
    ELSE LET key == Join(path, Slash) IN
         IF key \in DOMAIN st.folders
         THEN [folders |-> st.folders, treeNodes |-> st.treeNodes, folder |-> st.folders[key]]
         ELSE LET localPath == SubSeq(path, 1, Len(path) - 1)
                  name == path[Len(path)]
                  newFolder == Len(st.treeNodes) + 1
                  parent == getParentFolder(localPath,
                                [folders |-> MapSet(st.folders, key, newFolder),
                                 treeNodes |-> Append(st.treeNodes, Folder(name))])
              IN [folders |-> parent.folders,
                  treeNodes |-> [parent.treeNodes EXCEPT
                                    ![parent.folder].children = Append(@, newFolder)],
                  folder |-> newFolder]

\* crate.tracks.map((track) => trackPathIndex.get(track.path))
\*             .filter((index) => index !== undefined)
Undefined == [defined |-> FALSE, index |-> 0]
Defined(i) == [defined |-> TRUE, index |-> i]

mapGet(tracks, index) ==
    [i \in 1..Len(tracks) |->
        IF tracks[i].path \in DOMAIN index THEN Defined(index[tracks[i].path])
        ELSE Undefined]

keepIndex_Truthy(x) == x.defined /\ x.index # 0

keepIndex(x) == x.defined

playlistTracks(tracks, index) ==
    LET kept == SelectSeq(mapGet(tracks, index), keepIndex) IN
    [i \in 1..Len(kept) |-> kept[i].index]

\* null
JsNull == [null |-> TRUE]

\* A catch block of the crate scan that pushes nothing.
catchCrateError_Silent(errs, crateName, err) == errs

\* The catch block of the crate scan: errors.push(...)
catchCrateError(errs, crateName, err) ==
    Append(errs, [crateName |-> crateName, err |-> err])

\* String.prototype.startsWith
StartsWith(s, prefix) == Len(s) >= Len(prefix) /\ SubSeq(s, 1, Len(prefix)) = prefix

MountPath == <<47, 109>>                                         \* "/m"

\* resolve(`${mountPath}/${track.path}`), for a path of plain segments.
resolveTrackPath(path) == MountPath \o Slash \o path

\* The record parseTrackMetaData returns for a file without ID3v2 tags.
untaggedMetaData(path, trackId) ==
    [path |-> path, trackId |-> trackId, name |-> <<>>,
     color |-> JsNull, cuePoints |-> <<>>, loopEntries |-> <<>>,
     beatGridMarkers |-> JsNull, bpmLock |-> FALSE, hasWarnings |-> FALSE]

\* The body of the loop over trackList for track i: the meta-data, or the
\* error that is pushed.
loadTrack(track, i, o, unreadableFiles) ==
    LET resolvedPath == resolveTrackPath(track.path) IN
    IF o.musicDir.given /\ ~StartsWith(resolvedPath, o.musicDir.value)
    THEN [ok |-> FALSE, err |-> "NotInLibrary"]
    ELSE IF resolvedPath \in unreadableFiles
    THEN [ok |-> FALSE, err |-> "LoadFailed"]
    ELSE [ok |-> TRUE, meta |-> untaggedMetaData(resolvedPath, i)]

\* data.collection.get(trackId)?.path ?? ''
entryPath(data, trackId) ==
    IF trackId \in DOMAIN data THEN data[trackId].path ELSE <<>>

\* The paths that the Key attributes of a playlist's TRACK entries are made
\* of (of a folder: none).
playlistEntries(data, node) ==
    IF node.type = "Playlist"
    THEN [i \in 1..Len(node.tracks) |-> entryPath(data, node.tracks[i])]
    ELSE <<>>

----------------------------------------------------------------------------
(* The Subcrates directory and the options of a run *)

CrateFileNames ==
    { <<65, 37, 37, 66, 37, 37, 77, 46, 99, 114, 97, 116, 101>>,           \* "A%%B%%M.crate"
      <<65, 37, 37, 67, 37, 37, 78, 46, 99, 114, 97, 116, 101>>,           \* "A%%C%%N.crate"
      <<82, 79, 79, 84, 37, 37, 88, 46, 99, 114, 97, 116, 101>>,           \* "ROOT%%X.crate"
      <<77, 46, 99, 114, 97, 116, 101>>,                                   \* "M.crate"
      <<82, 79, 79, 84, 37, 37, 65, 37, 37, 89, 46, 99, 114, 97, 116, 101>>, \* "ROOT%%A%%Y.crate"
      <<77, 46, 116, 120, 116>> }                                          \* "M.txt"

\* What a file of the directory holds, as lists of the items of CrateItems.
FileItems ==
    << <<1, 2, 3>>,             \* a1, b2
       <<1, 3, 4, 2, 3, 2>>,    \* b2, a1, b2, a1, with another node between
       <<6, 2>>,                \* not the expected version
       <<1, 2, 7>>,             \* a1, then a track entry without a path
       <<1, 2, 9>> >>           \* a1, then a section that overruns the file

FileContents == [i \in 1..Len(FileItems) |-> ItemBytes(FileItems[i])]

MaxCrateFiles == 2

\* The directories: up to MaxCrateFiles of the file names, their contents
\* taken from FileItems in rotation (the k-th name, in sort order, holds
\* contents k + shift), for every shift.
NameIndex(name) ==
    CHOOSE k \in 1..Cardinality(CrateFileNames) : SortStrings(CrateFileNames)[k] = name

Directories ==
    { [name \in names |-> ((NameIndex(name) + shift) % Len(FileItems)) + 1] :
        names \in {S \in SUBSET CrateFileNames : Cardinality(S) <= MaxCrateFiles},
        shift \in 1..Len(FileItems) }

Options ==
    { [includeCratesOnly |-> i, crateFilter |-> f, trackFilter |-> t, musicDir |-> m] :
        i \in {NotGiven},
        f \in {NotGiven, Given(<<65>>)},                                   \* -f A
        t \in {NotGiven, Given(<<97>>)},                                   \* -t a
        m \in {NotGiven} }
    \cup
    { [includeCratesOnly |-> Given(<< <<77, 46, 99, 114, 97, 116, 101>> >>), \* -c M.crate
       crateFilter |-> NotGiven, trackFilter |-> t, musicDir |-> NotGiven] :
        t \in {NotGiven, Given(<<97>>)} }
    \cup
    { [includeCratesOnly |-> NotGiven, crateFilter |-> NotGiven, trackFilter |-> NotGiven,
       musicDir |-> Given(MountPath \o <<47, 98>>)] }                      \* -m /m/b

\* The track files that cannot be loaded: none, or the file of "b2", or
\* every file.
UnreadableSets ==
    { {}, {resolveTrackPath(PathB)}, {resolveTrackPath(PathA), resolveTrackPath(PathB)} }

----------------------------------------------------------------------------
(* One run of the program *)

Init ==
    /\ CrateIdle
    /\ LoopIdle
    /\ BeatIdle
    /\ M2Idle
    /\ TrackIdle
    /\ FnIdle
    /\ pc = "list"
    /\ opts \in Options
    /\ files \in Directories
    /\ crateNameList = <<>>
    /\ crateScanProgress = 0
    /\ crateList = <<>>
    /\ trackList = <<>>
    /\ trackPathIndex = EmptyMap
    /\ errors = <<>>
    /\ folders = EmptyMap
    /\ treeNodes = <<>>
    /\ placed = 0
    /\ includedSeen = <<>>
    /\ playlistOf = <<>>
    /\ unreadable \in UnreadableSets
    /\ trackScanProgress = 0
    /\ trackMeta = <<>>
    /\ collection = <<>>
    /\ xmlPlaylists = <<>>

\* readDirOrThrow, and the filter and sort of crateNameList.
LoadCrateList ==
    /\ pc = "list"
    /\ crateNameList' = SortStrings({n \in DOMAIN files : crateNameSelected(n, opts)})
    /\ pc' = "scan"
    /\ UNCHANGED <<opts, files, crateScanProgress, crateList, trackList, trackPathIndex,
                   errors, folders, treeNodes, placed, includedSeen, playlistOf,
                   unreadable, trackScanProgress, trackMeta, collection, xmlPlaylists,
                   crateVars, beatVars, m2Vars, trackVars, fnVars, loopVars>>

\* One turn of the loop over crateNameList: the try block and its catch.
ScanCrate ==
    /\ pc = "scan"
    /\ crateScanProgress < Len(crateNameList)
    /\ LET crateName == crateNameList[crateScanProgress + 1]
           cratePath == SubcratesDir \o crateName
           crate == parseCrate(cratePath, FileContents[files[crateName]])
       IN /\ crateScanProgress' = crateScanProgress + 1
          /\ IF crate.ok
             THEN LET st == scanTracks(crate.tracks, opts,
                                [trackList |-> trackList, trackPathIndex |-> trackPathIndex])
                  IN /\ crateList' = Append(crateList,
                             [name |-> crate.name, version |-> crate.version,
                              tracks |-> crate.tracks])
                     /\ trackList' = st.trackList
                     /\ trackPathIndex' = st.trackPathIndex
                     /\ errors' = errors
                     /\ includedSeen' = includedSeen \o
                            SelectSeq(crate.tracks, LAMBDA t : ~trackFiltered(t, opts))
             ELSE /\ errors' = catchCrateError(errors, crateName, crate.err)
                  /\ UNCHANGED <<crateList, trackList, trackPathIndex, includedSeen>>
    /\ UNCHANGED <<pc, opts, files, crateNameList, folders, treeNodes, placed, playlistOf,
                   unreadable, trackScanProgress, trackMeta, collection, xmlPlaylists,
                   crateVars, beatVars, m2Vars, trackVars, fnVars, loopVars>>

\* One turn of the loop over trackList, after the crate scan: the track is
\* rejected as outside the music library, or its meta-data is loaded into
\* trackMeta[i], or loading throws.
LoadTrack ==
    /\ pc = "scan"
    /\ crateScanProgress = Len(crateNameList)
    /\ trackScanProgress < Len(trackList)
    /\ LET i == trackScanProgress
           r == loadTrack(trackList[i + 1], i, opts, unreadable)
       IN /\ trackScanProgress' = i + 1
          /\ IF r.ok
             THEN trackMeta' = MapSet(trackMeta, i, r.meta) /\ errors' = errors
             ELSE errors' = Append(errors, [track |-> trackList[i + 1].path, err |-> r.err])
                  /\ trackMeta' = trackMeta
    /\ UNCHANGED <<pc, opts, files, crateNameList, crateScanProgress, crateList, trackList,
                   trackPathIndex, folders, treeNodes, placed, includedSeen, playlistOf,
                   unreadable, collection, xmlPlaylists,
                   crateVars, beatVars, m2Vars, trackVars, fnVars, loopVars>>

\* After the two scans: the Map folders with its ROOT folder, and the
\* collection, which trackMeta.forEach fills from the indices that are set.
StartGenerate ==
    /\ pc = "scan"
    /\ crateScanProgress = Len(crateNameList)
    /\ trackScanProgress = Len(trackList)
    /\ treeNodes' = <<Folder(KeyROOT)>>
    /\ folders' = MapSet(EmptyMap, KeyROOT, 1)
    /\ collection' = trackMeta
    /\ pc' = "build"
    /\ UNCHANGED <<opts, files, crateNameList, crateScanProgress, crateList, trackList,
                   trackPathIndex, errors, placed, includedSeen, playlistOf,
                   unreadable, trackScanProgress, trackMeta, xmlPlaylists,
                   crateVars, beatVars, m2Vars, trackVars, fnVars, loopVars>>

\* One turn of crateList.forEach: the crate's playlist, put under its folder.
PlaceCrate ==
    /\ pc = "build"
    /\ placed < Len(crateList)
    /\ LET crate == crateList[placed + 1]
           parts == SubSeq(crate.name, 1, Len(crate.name) - 1)
           name == crate.name[Len(crate.name)]
           parent == getParentFolder(parts, [folders |-> folders, treeNodes |-> treeNodes])
           playlist == Len(parent.treeNodes) + 1
       IN /\ folders' = parent.folders
          /\ treeNodes' =
                [Append(parent.treeNodes,
                        Playlist(name, playlistTracks(crate.tracks, trackPathIndex)))
                    EXCEPT ![parent.folder].children = Append(@, playlist)]
          /\ playlistOf' = Append(playlistOf, playlist)
    /\ placed' = placed + 1
    /\ UNCHANGED <<pc, opts, files, crateNameList, crateScanProgress, crateList, trackList,
                   trackPathIndex, errors, includedSeen,
                   unreadable, trackScanProgress, trackMeta, collection, xmlPlaylists,
                   crateVars, beatVars, m2Vars, trackVars, fnVars, loopVars>>

\* exportToRecordboxXml is called with the collection and the folder the key
\* ROOT maps to: the TRACK entries generatePlaylistNode makes of each
\* playlist.
Export ==
    /\ pc = "build"
    /\ placed = Len(crateList)
    /\ xmlPlaylists' = [n \in 1..Len(treeNodes) |-> playlistEntries(collection, treeNodes[n])]
    /\ pc' = "done"
    /\ UNCHANGED <<opts, files, crateNameList, crateScanProgress, crateList, trackList,
                   trackPathIndex, errors, folders, treeNodes, placed, includedSeen,
                   playlistOf, unreadable, trackScanProgress, trackMeta, collection,
                   crateVars, beatVars, m2Vars, trackVars, fnVars, loopVars>>

Next == LoadCrateList \/ ScanCrate \/ LoadTrack \/ StartGenerate \/ PlaceCrate \/ Export

Spec == Init /\ [][Next]_vars

----------------------------------------------------------------------------
(* Claims about the crate scan and the playlist tree *)

\* The first occurrences of the elements of a sequence, in order.
RECURSIVE FirstSeen(_, _)
FirstSeen(seq, acc) ==
    IF seq = <<>> THEN acc
    ELSE IF \E i \in 1..Len(acc) : acc[i] = Head(seq) THEN FirstSeen(Tail(seq), acc)
    ELSE FirstSeen(Tail(seq), Append(acc, Head(seq)))

IndexWellFormed ==
    /\ DOMAIN trackPathIndex = {includedSeen[i].path : i \in 1..Len(includedSeen)}
    /\ Cardinality(DOMAIN trackPathIndex) = Len(trackList)
    /\ \A p \in DOMAIN trackPathIndex :
          /\ trackPathIndex[p] \in 0..(Len(trackList) - 1)
          /\ trackList[trackPathIndex[p] + 1].path = p
    /\ trackList = FirstSeen(includedSeen, <<>>)

IndexStable ==
    /\ \A p \in DOMAIN trackPathIndex :
          p \in DOMAIN trackPathIndex' /\ trackPathIndex'[p] = trackPathIndex[p]
    /\ Len(trackList) <= Len(trackList')
    /\ SubSeq(trackList', 1, Len(trackList)) = trackList

\* C4: the index maps each included path to one number, the numbers are
\* 0..n-1 in first-seen order with trackList[index].path the path, a path
\* seen again adds nothing, and an index once assigned never changes.
C4_DedupIndex == [](pc # "idle" => IndexWellFormed) /\ [][IndexStable]_vars

\* Two crates were scanned and paths of the first came again in the second.
C4_Witness ==
    /\ pc = "scan"
    /\ Len(crateList) = 2
    /\ Len(trackList) = 2
    /\ Len(includedSeen) > Len(crateList[1].tracks)
    /\ Len(includedSeen) > Len(trackList)

Root == folders[KeyROOT]

\* From `folder`, folders named segs[1] .. segs[k-1] lead to a playlist
\* named segs[k].
RECURSIVE HasChain(_, _)
HasChain(folder, segs) ==
    \E i \in 1..Len(treeNodes[folder].children) :
        LET child == treeNodes[folder].children[i] IN
        IF Len(segs) = 1
        THEN treeNodes[child].type = "Playlist" /\ treeNodes[child].name = segs[1]
        ELSE /\ treeNodes[child].type = "Folder"
             /\ treeNodes[child].name = segs[1]
             /\ HasChain(child, Tail(segs))

\* C5: for every parsed crate with name segments s1..sk the tree holds the
\* folders s1 .. s(k-1), one under the other from the root, and the playlist
\* sk under the last of them.
C5_ChainForEveryCrate ==
    pc = "done" => \A k \in 1..Len(crateList) : HasChain(Root, crateList[k].name)

FolderIds == {i \in 1..Len(treeNodes) : treeNodes[i].type = "Folder"}

\* The places where a node is listed as a child.
ListedAt(node) ==
    {<<f, i>> \in FolderIds \X (1..Len(treeNodes)) :
        i <= Len(treeNodes[f].children) /\ treeNodes[f].children[i] = node}

\* The folders below `folder`, each with its path of names from the root.
RECURSIVE FoldersBelow(_, _)
FoldersBelow(folder, path) ==
    UNION { LET child == treeNodes[folder].children[i] IN
            IF treeNodes[child].type = "Folder"
            THEN {<<Append(path, treeNodes[child].name), child>>}
                 \cup FoldersBelow(child, Append(path, treeNodes[child].name))
            ELSE {}
          : i \in 1..Len(treeNodes[folder].children) }

\* C6: no two folders have the same path from the root, every folder but
\* the root is listed once, as a child of one folder, and there is one root.
C6_OneFolderPerPath ==
    pc = "done" =>
        /\ \A a, b \in FoldersBelow(Root, <<>>) : a[1] = b[1] => a[2] = b[2]
        /\ \A f \in FolderIds \ {Root} : Cardinality(ListedAt(f)) = 1
        /\ {f \in FolderIds : ListedAt(f) = {}} = {Root}

\* The references a crate's playlist is to hold.
RECURSIVE ExpectedRefs(_, _)
ExpectedRefs(tracks, index) ==
    IF tracks = <<>> THEN <<>>
    ELSE (IF Head(tracks).path \in DOMAIN index THEN <<index[Head(tracks).path]>> ELSE <<>>)
         \o ExpectedRefs(Tail(tracks), index)

\* C7: a crate's playlist holds, in crate order, the index of each of the
\* crate's paths that has one; a path without an index is dropped and the
\* other references keep their place and their value.
C7_PlaylistReferences ==
    \A k \in 1..Len(playlistOf) :
        LET playlist == treeNodes[playlistOf[k]]
            crate == crateList[k]
        IN /\ playlist.type = "Playlist"
           /\ playlist.tracks = ExpectedRefs(crate.tracks, trackPathIndex)
           /\ [i \in 1..Len(playlist.tracks) |-> trackList[playlist.tracks[i] + 1]]
                = SelectSeq(crate.tracks, LAMBDA t : ~trackFiltered(t, opts))

\* A crate with paths b2, a1, b2, a1 was placed when b2 has no index.
C7_Witness ==
    /\ pc = "done"
    /\ \E k \in 1..Len(playlistOf) :
          /\ Len(crateList[k].tracks) = 4
          /\ crateList[k].tracks[1].path \notin DOMAIN trackPathIndex
          /\ treeNodes[playlistOf[k]].tracks = <<0, 0>>

----------------------------------------------------------------------------
(* trackMetaDataParser.ts: the Serato tag decoders *)

\* A DataView: `byteLength` bytes of `buffer` from `byteOffset` on.
DataView(buffer, byteOffset, byteLength) ==
    [buffer |-> buffer, byteOffset |-> byteOffset, byteLength |-> byteLength]

WholeView(buffer) == DataView(buffer, 0, Len(buffer))

\* Whether the n bytes at offset i lie inside the view (a get method throws
\* a RangeError otherwise).
InView(view, i, n) == i >= 0 /\ i + n <= view.byteLength

getUint8(view, i) == U8(view.buffer, view.byteOffset + i)

\* getUint32(i, false) as a value that is kept: top * 2^31 + low.
getUint32(view, i) ==
    LET b == SubSeq(view.buffer, view.byteOffset + i + 1, view.byteOffset + i + 4) IN
    [top |-> b[1] \div 128,
     low |-> (((b[1] % 128) * 256 + b[2]) * 256 + b[3]) * 256 + b[4]]

\* getFloat32(i, false): the number with these four bytes as its IEEE 754
\* single precision pattern.
getFloat32(view, i) ==
    [float32 |-> SubSeq(view.buffer, view.byteOffset + i + 1, view.byteOffset + i + 4)]

\* TextDecoder().decode for UTF-8, exact on bytes below 0xE0: an ASCII byte is
\* its own code unit, a lead byte 0xC2..0xDF with a continuation byte is one
\* code unit, and any other byte is U+FFFD.  (A lead byte is no continuation
\* byte, so byte i is the second of a pair exactly when byte i - 1 is a lead
\* byte and byte i a continuation byte.)
IsLead(b) == b >= 194 /\ b <= 223
IsContinuation(b) == b >= 128 /\ b <= 191

Utf8Decode(bytes) ==
    LET second(i) == i > 1 /\ IsLead(bytes[i - 1]) /\ IsContinuation(bytes[i])
        unit(i) ==
            IF second(i) THEN -1
            ELSE IF bytes[i] < 128 THEN bytes[i]
            ELSE IF IsLead(bytes[i]) /\ i < Len(bytes) /\ IsContinuation(bytes[i + 1])
            THEN (bytes[i] - 192) * 64 + (bytes[i + 1] - 128)
            ELSE 65533
    IN SelectSeq([i \in 1..Len(bytes) |-> unit(i)], LAMBDA u : u >= 0)

\* readNullTerminatedString: getUint8 is evaluated before the bound is
\* compared, so the loop ends at the first zero byte from `offset` on inside
\* the view, or throws when it reads past the view's last byte.
StringLength(view, offset) ==
    LET zeros == {k \in offset..(view.byteLength - 1) : getUint8(view, k) = 0} IN
    IF offset < 0 \/ zeros = {} THEN Thrown("RangeError")
    ELSE [ok |-> TRUE, length |-> (CHOOSE k \in zeros : \A z \in zeros : k <= z) - offset]

readNullTerminatedString(view, offset) ==
    LET n == StringLength(view, offset) IN
    IF ~n.ok THEN n
    ELSE [ok |-> TRUE,
          value |-> Utf8Decode(SubSeq(view.buffer, view.byteOffset + offset + 1,
                                      view.byteOffset + offset + n.length))]

\* Buffer.from(string, 'base64'): the characters before the first '=' that
\* belong to the alphabet (the URL-safe one included), six bits each; a rest
\* of one character gives no byte.
Base64Value(c) ==
    IF c >= 65 /\ c <= 90 THEN c - 65
    ELSE IF c >= 97 /\ c <= 122 THEN c - 71
    ELSE IF c >= 48 /\ c <= 57 THEN c + 4
    ELSE IF c = 43 \/ c = 45 THEN 62
    ELSE IF c = 47 \/ c = 95 THEN 63
    ELSE -1

Sextets(chars) ==
    LET pads == {i \in 1..Len(chars) : chars[i] = 61}
        used == IF pads = {} THEN Len(chars)
                ELSE (CHOOSE i \in pads : \A j \in pads : i <= j) - 1
    IN SelectSeq([i \in 1..used |-> Base64Value(chars[i])], LAMBDA v : v >= 0)

\* Byte j (from 0) of the bits of the sextets x: its first bit is bit 8j.
SextetsToBytes(x) ==
    [k \in 1..((Len(x) * 6) \div 8) |->
        LET q == ((k - 1) * 8) \div 6 + 1
            r == ((k - 1) * 8) % 6
        IN IF r = 0 THEN x[q] * 4 + x[q + 1] \div 16
           ELSE IF r = 2 THEN (x[q] % 16) * 16 + x[q + 1] \div 4
           ELSE (x[q] % 4) * 64 + x[q + 1]]

fromBase64(chars) == SextetsToBytes(Sextets(chars))

N_COLOR == <<67, 79, 76, 79, 82>>
N_CUE == <<67, 85, 69>>
N_LOOP == <<76, 79, 79, 80>>
N_BPMLOCK == <<66, 80, 77, 76, 79, 67, 75>>

\* One turn of the element loop at `offset`: the element and the next offset,
\* or the end of the loop (an empty name), or the error thrown.
readElement(payloadView, offset) ==
    LET name == readNullTerminatedString(payloadView, offset) IN
    IF ~name.ok THEN name
    ELSE IF name.value = <<>> THEN [ok |-> TRUE, end |-> TRUE]
    ELSE LET at == offset + Len(name.value) + 1 IN
         IF ~InView(payloadView, at, 4) THEN Thrown("RangeError")
         ELSE LET length == getUint32(payloadView, at) IN
              IF length.top = 1 \/ at + 4 + length.low > Len(payloadView.buffer)
              THEN Thrown("RangeError")
              ELSE [ok |-> TRUE, end |-> FALSE,
                    element |-> [name |-> name.value,
                                 data |-> DataView(payloadView.buffer, at + 4, length.low)],
                    offset |-> at + 4 + length.low]

RECURSIVE elementsLoop(_, _, _)
elementsLoop(payloadView, offset, elements) ==
    IF ~(offset < Len(payloadView.buffer)) THEN [ok |-> TRUE, elements |-> elements]
    ELSE LET e == readElement(payloadView, offset) IN
         IF ~e.ok THEN e
         ELSE IF e.end THEN [ok |-> TRUE, elements |-> elements]
         ELSE elementsLoop(payloadView, e.offset, Append(elements, e.element))

Bytes4(view, i) ==
    <<getUint8(view, i), getUint8(view, i + 1), getUint8(view, i + 2), getUint8(view, i + 3)>>

\* The CUE case read one byte early.
cuePoint_OneEarly(data, name) ==
    [index |-> getUint8(data, 0),
     positionMs |-> getUint32(data, 1),
     color |-> <<getUint8(data, 6), getUint8(data, 7), getUint8(data, 8)>>,
     name |-> name]

\* The cue point of the CUE case, its name read already.
cuePoint(data, name) ==
    [index |-> getUint8(data, 1),
     positionMs |-> getUint32(data, 2),
     color |-> <<getUint8(data, 7), getUint8(data, 8), getUint8(data, 9)>>,
     name |-> name]

\* The switch on element.name, on the result so far.
dispatchElement(element, result) ==
    LET data == element.data IN
    IF element.name = N_COLOR
    THEN IF ~InView(data, 0, 4) THEN Thrown("RangeError")
         ELSE [result EXCEPT !.color = Bytes4(data, 0)]
    ELSE IF element.name = N_CUE
    THEN IF ~InView(data, 1, 9) THEN Thrown("RangeError")
         ELSE LET name == readNullTerminatedString(data, 12) IN
              IF ~name.ok THEN name
              ELSE [result EXCEPT !.cuePoints = Append(@, cuePoint(data, name.value))]
    ELSE IF element.name = N_LOOP
    THEN IF ~InView(data, 1, 19) THEN Thrown("RangeError")
         ELSE LET name == readNullTerminatedString(data, 20) IN
              IF ~name.ok THEN name
              ELSE [result EXCEPT !.loopEntries = Append(@,
                        [index |-> getUint8(data, 1),
                         startMs |-> getUint32(data, 2),
                         endMs |-> getUint32(data, 6),
                         color |-> Bytes4(data, 14),
                         locked |-> getUint8(data, 19) = 1,
                         name |-> name.value])]
    ELSE IF element.name = N_BPMLOCK
    THEN IF ~InView(data, 0, 1) THEN Thrown("RangeError")
         ELSE [result EXCEPT !.bpmLock = getUint8(data, 0) = 1]
    ELSE result

RECURSIVE dispatchLoop(_, _)
dispatchLoop(elements, result) ==
    IF elements = <<>> THEN result
    ELSE LET r == dispatchElement(Head(elements), result) IN
         IF ~r.ok THEN r ELSE dispatchLoop(Tail(elements), r)

\* parseSeratorMarkers2 from the decoded payload on.
markers2FromPayload(payload) ==
    IF Len(payload) < 2 \/ payload[1] # 1 \/ payload[2] # 1 THEN Thrown("ParseError")
    ELSE LET elements == elementsLoop(WholeView(payload), 2, <<>>) IN
         IF ~elements.ok THEN elements
         ELSE dispatchLoop(elements.elements,
                  [ok |-> TRUE, color |-> JsNull, cuePoints |-> <<>>,
                   loopEntries |-> <<>>, bpmLock |-> FALSE])

parseSeratorMarkers2(view) ==
    LET base64String == readNullTerminatedString(view, 0) IN
    IF ~base64String.ok THEN base64String
    ELSE markers2FromPayload(fromBase64(base64String.value))

\* The body of the loop of parseSeratoBeatGrid without the case of the last
\* marker.
beatGridMarker_AllAlike(view, numMarkers, i) ==
    LET markerStart == 6 + i * 8 IN
    IF ~InView(view, markerStart, 8) THEN Thrown("RangeError")
    ELSE [ok |-> TRUE,
          marker |-> [position |-> getFloat32(view, markerStart), bpm |-> JsNull,
                      beatsTillNextMarker |-> getUint32(view, markerStart + 4)]]

\* The body of the loop of parseSeratoBeatGrid: marker i of numMarkers.
beatGridMarker(view, numMarkers, i) ==
    LET markerStart == 6 + i * 8 IN
    IF ~InView(view, markerStart, 8) THEN Thrown("RangeError")
    ELSE LET position == getFloat32(view, markerStart) IN
         IF i < numMarkers - 1
         THEN [ok |-> TRUE,
               marker |-> [position |-> position, bpm |-> JsNull,
                           beatsTillNextMarker |-> getUint32(view, markerStart + 4)]]
         ELSE [ok |-> TRUE,
               marker |-> [position |-> position,
                           bpm |-> getFloat32(view, markerStart + 4),
                           beatsTillNextMarker |-> JsNull]]

\* The loop of parseSeratoBeatGrid from marker i on, for a marker count
\* below 2^31.
RECURSIVE beatGridLoop(_, _, _, _)
beatGridLoop(view, numMarkers, i, markers) ==
    IF ~(i < numMarkers) THEN [ok |-> TRUE, markers |-> markers]
    ELSE LET m == beatGridMarker(view, numMarkers, i) IN
         IF ~m.ok THEN m
         ELSE beatGridLoop(view, numMarkers, i + 1, Append(markers, m.marker))

\* parseSeratoBeatGrid.  A marker count of 2^31 or more is more markers than
\* any view holds: getFloat32 throws when the view ends.
parseSeratoBeatGrid(view) ==
    IF ~InView(view, 2, 4) THEN Thrown("RangeError")
    ELSE LET numMarkers == getUint32(view, 2) IN
         IF numMarkers.top = 1 THEN Thrown("RangeError")
         ELSE beatGridLoop(view, numMarkers.low, 0, <<>>)

----------------------------------------------------------------------------
(* Frames: how the bytes that the tag decoders read back are laid out *)

\* A beat grid record: four bytes of position and four bytes that are the
\* beats to the next marker, or the BPM in the last record.
BeatRecords ==
    << <<0, 0, 0, 0, 0, 0, 0, 4>>,          \* 0.0, 4 beats
       <<63, 128, 0, 0, 66, 240, 0, 0>>,    \* 1.0, 120.0 BPM
       <<64, 0, 0, 0, 0, 0, 0, 0>> >>       \* 2.0, zero

MaxMarkers == 3

BeatRecordLists == UNION {[1..n -> 1..Len(BeatRecords)] : n \in 0..MaxMarkers}

BeatGridBytes(countBytes, records, tail) ==
    <<1, 0>> \o countBytes
    \o Concat([i \in 1..Len(records) |-> BeatRecords[records[i]]]) \o tail

\* The characters of base64.
Base64Alphabet ==
    <<65, 66, 67, 68, 69, 70, 71, 72, 73, 74, 75, 76, 77, 78, 79, 80, 81, 82, 83, 84, 85, 86,
      87, 88, 89, 90, 97, 98, 99, 100, 101, 102, 103, 104, 105, 106, 107, 108, 109, 110, 111, 112, 113, 114,
      115, 116, 117, 118, 119, 120, 121, 122, 48, 49, 50, 51, 52, 53, 54, 55, 56, 57, 43, 47>>

\* Base64 with '=' padding: character k (from 0) holds bits 6k .. 6k+5.
toBase64(bytes) ==
    LET byte(i) == IF i <= Len(bytes) THEN bytes[i] ELSE 0
        chars == (Len(bytes) * 8 + 5) \div 6
        char(k) ==
            LET q == (k * 6) \div 8 + 1
                r == (k * 6) % 8
            IN IF r = 0 THEN byte(q) \div 4
               ELSE IF r = 6 THEN (byte(q) % 4) * 16 + byte(q + 1) \div 16
               ELSE IF r = 4 THEN (byte(q) % 16) * 4 + byte(q + 1) \div 64
               ELSE byte(q) % 64
    IN [k \in 1..(((Len(bytes) + 2) \div 3) * 4) |->
            IF k <= chars THEN Base64Alphabet[char(k - 1) + 1] ELSE 61]

Num32(n) == [top |-> 0, low |-> n]

\* The elements a Markers2 payload is written from.  kind: "color", "cue",
\* "loop", "bpmlock" (a well-formed element of that name, value: what it
\* holds), "unknown" (a well-formed element with another ASCII name),
\* "malformed" (a framed element whose payload is not what its name needs),
\* "nonascii" (an element whose name is not ASCII).
Element(kind, name, payload, value) ==
    [kind |-> kind, name |-> name, payload |-> payload, value |-> value]

CueElement(index, positionMs, rgb, name) ==
    Element("cue", N_CUE,
            <<0, index>> \o U32BE(positionMs) \o <<0>> \o rgb \o <<0, 0>> \o name \o <<0>>,
            [index |-> index, positionMs |-> Num32(positionMs), color |-> rgb, name |-> name])

LoopElement(index, startMs, endMs, argb, locked, name) ==
    Element("loop", N_LOOP,
            <<0, index>> \o U32BE(startMs) \o U32BE(endMs) \o <<255, 255, 255, 255>>
            \o argb \o <<0, IF locked THEN 1 ELSE 0>> \o name \o <<0>>,
            [index |-> index, startMs |-> Num32(startMs), endMs |-> Num32(endMs),
             color |-> argb, locked |-> locked, name |-> name])

Markers2Elements ==
    << Element("color", N_COLOR, <<255, 0, 255, 128>>, <<255, 0, 255, 128>>),
       CueElement(2, 1500, <<10, 20, 30>>, <<73, 110>>),               \* "In"
       CueElement(0, 70000, <<204, 0, 0>>, <<>>),
       \* "XYZZY"
       Element("unknown", <<88, 89, 90, 90, 89>>, <<1, 2, 3>>, <<>>),
       Element("bpmlock", N_BPMLOCK, <<1>>, TRUE),
       LoopElement(1, 1000, 5000, <<0, 39, 170, 225>>, TRUE, <<76>>),   \* "L"
       \* a CUE of four bytes
       Element("malformed", N_CUE, <<0, 2, 0, 0>>, <<>>),
       \* a CUE whose name has no NUL
       Element("malformed", N_CUE, <<0, 1, 0, 0, 0, 9, 0, 1, 2, 3, 0, 0, 79, 117>>, <<>>),
       \* an element named "é" in UTF-8
       Element("nonascii", <<195, 169>>, <<7>>, <<>>) >>

MaxElements == 3

ElementLists == UNION {[1..n -> 1..Len(Markers2Elements)] : n \in 0..MaxElements}

ElementBytes(e) == e.name \o <<0>> \o U32BE(Len(e.payload)) \o e.payload

\* The payload: the magic, the elements, and the empty name that ends them
\* when `terminated`.
Markers2Payload(elems, terminated) ==
    <<1, 1>> \o Concat([i \in 1..Len(elems) |-> ElementBytes(Markers2Elements[elems[i]])])
    \o (IF terminated THEN <<0>> ELSE <<>>)

Markers2Frame(elems, terminated) == toBase64(Markers2Payload(elems, terminated)) \o <<0>>

----------------------------------------------------------------------------
(* One call of parseSeratoBeatGrid, one call of parseSeratorMarkers2 *)

InitBeat ==
    /\ CrateIdle
    /\ LoopIdle
    /\ ScanIdle
    /\ M2Idle
    /\ TrackIdle
    /\ FnIdle
    /\ bpc = "start"
    /\ \E n \in 0..(MaxMarkers + 1), records \in BeatRecordLists,
          tail \in {<<>>, <<0, 0, 0, 0>>} :
          /\ bcount = n
          /\ bview \in { BeatGridBytes(U32BE(n), records, tail),
                         BeatGridBytes(<<128, 0, 0, n>>, records, tail),
                         SubSeq(BeatGridBytes(U32BE(n), records, tail), 1, 5) }
    /\ bresult = NoResult

ParseBeatGrid ==
    /\ bpc = "start"
    /\ bresult' = parseSeratoBeatGrid(WholeView(bview))
    /\ bpc' = "done"
    /\ UNCHANGED <<bview, bcount, crateVars, scanVars, m2Vars, trackVars, fnVars, loopVars>>

NextBeat == ParseBeatGrid

SpecBeat == InitBeat /\ [][NextBeat]_vars

InitM2 ==
    /\ CrateIdle
    /\ LoopIdle
    /\ ScanIdle
    /\ BeatIdle
    /\ TrackIdle
    /\ FnIdle
    /\ mpc = "start"
    /\ melems \in ElementLists
    /\ \E terminated \in BOOLEAN : mview = Markers2Frame(melems, terminated)
    /\ mresult = NoResult

ParseMarkers2 ==
    /\ mpc = "start"
    /\ mresult' = parseSeratorMarkers2(WholeView(mview))
    /\ mpc' = "done"
    /\ UNCHANGED <<mview, melems, crateVars, scanVars, beatVars, trackVars, fnVars, loopVars>>

NextM2 == ParseMarkers2

SpecM2 == InitM2 /\ [][NextM2]_vars

----------------------------------------------------------------------------
(* Claims about the tag decoders *)

BeatRecordAt(i) == SubSeq(bview, 6 + 8 * (i - 1) + 1, 6 + 8 * i)

\* C8: a beat grid that declares N >= 1 markers and holds their bytes decodes
\* to N markers in record order; all but the last carry the beats to the
\* next marker and no BPM, the last carries a BPM and no beats.
C8_LastMarkerCarriesBpm ==
    (/\ bpc = "done"
     /\ bcount >= 1
     /\ Len(bview) >= 6 + 8 * bcount
     /\ SubSeq(bview, 3, 6) = U32BE(bcount)) =>
        /\ bresult.ok
        /\ Len(bresult.markers) = bcount
        /\ \A i \in 1..bcount :
              LET m == bresult.markers[i] IN
              /\ m.position = [float32 |-> SubSeq(BeatRecordAt(i), 1, 4)]
              /\ (m.bpm = JsNull) # (m.beatsTillNextMarker = JsNull)
              /\ IF i < bcount
                 THEN /\ m.bpm = JsNull
                      /\ m.beatsTillNextMarker
                           = getUint32(WholeView(BeatRecordAt(i)), 4)
                 ELSE /\ m.beatsTillNextMarker = JsNull
                      /\ m.bpm = [float32 |-> SubSeq(BeatRecordAt(i), 5, 8)]

\* A grid of three markers was decoded.
C8_Witness ==
    /\ bpc = "done"
    /\ bcount = 3
    /\ bresult.ok
    /\ Len(bresult.markers) = 3
    /\ bresult.markers[3].bpm # JsNull

ElementKinds(elems) == {Markers2Elements[elems[i]].kind : i \in 1..Len(elems)}

WellFormedElements(elems) ==
    ElementKinds(elems) \subseteq {"color", "cue", "loop", "bpmlock", "unknown"}

\* What the elements hold, in element order.
RECURSIVE ExpectedMarkers2(_, _)
ExpectedMarkers2(elems, acc) ==
    IF elems = <<>> THEN acc
    ELSE LET e == Markers2Elements[Head(elems)] IN
         ExpectedMarkers2(Tail(elems),
             IF e.kind = "color" THEN [acc EXCEPT !.color = e.value]
             ELSE IF e.kind = "cue" THEN [acc EXCEPT !.cuePoints = Append(@, e.value)]
             ELSE IF e.kind = "loop" THEN [acc EXCEPT !.loopEntries = Append(@, e.value)]
             ELSE IF e.kind = "bpmlock" THEN [acc EXCEPT !.bpmLock = e.value]
             ELSE acc)

NoMarkers2 ==
    [ok |-> TRUE, color |-> JsNull, cuePoints |-> <<>>, loopEntries |-> <<>>,
     bpmLock |-> FALSE]

WithoutKind(elems, kind) == SelectSeq(elems, LAMBDA e : Markers2Elements[e].kind # kind)

\* C9: a well-formed payload decodes to the colour of its COLOR element and
\* to one cue point for each CUE element, in element order, each with the
\* index, position, colour and name its bytes hold; an element with another
\* name adds nothing and leaves what the other elements decode to unchanged.
C9_ElementsDecoded ==
    (mpc = "done" /\ WellFormedElements(melems)) =>
        /\ mresult = ExpectedMarkers2(melems, NoMarkers2)
        /\ \A terminated \in BOOLEAN :
              mresult = parseSeratorMarkers2(WholeView(
                            Markers2Frame(WithoutKind(melems, "unknown"), terminated)))

\* COLOR, then XYZZY, then a CUE were decoded.
C9_Witness ==
    /\ mpc = "done"
    /\ melems = <<1, 4, 2>>
    /\ mresult.ok
    /\ mresult.color = <<255, 0, 255, 128>>
    /\ Len(mresult.cuePoints) = 1
    /\ mresult.cuePoints[1].index = 2

\* C10: when one element of an otherwise valid payload is malformed, the
\* decoder still returns what the other elements hold.
C10_MalformedElementTolerated ==
    (/\ mpc = "done"
     /\ WellFormedElements(WithoutKind(melems, "malformed"))
     /\ Len(WithoutKind(melems, "malformed")) = Len(melems) - 1) =>
        /\ mresult.ok
        /\ mresult = ExpectedMarkers2(WithoutKind(melems, "malformed"), NoMarkers2)

----------------------------------------------------------------------------
(* trackMetaDataParser.ts: parseTrackMetaData from the record `result` on,
   and rekordboxExporter.ts: the TRACK element of that record *)

\* The record `result` before the GEOB frames, with the fields the tag library
\* fills in held by `name`.
newTrackMetaData(path, trackId) ==
    [path |-> path, trackId |-> trackId, name |-> <<84>>,
     color |-> JsNull, cuePoints |-> <<>>, loopEntries |-> <<>>,
     beatGridMarkers |-> JsNull, bpmLock |-> FALSE, hasWarnings |-> FALSE]

\* The catch block that also drops the cue points decoded so far.
geobFrame_CatchClears(result, frame) ==
    IF frame.type # "application/octet-stream" THEN result
    ELSE IF frame.description = "Serato Markers2"
    THEN LET markers == parseSeratorMarkers2(WholeView(frame.data)) IN
         IF ~markers.ok THEN [result EXCEPT !.hasWarnings = TRUE, !.cuePoints = <<>>]
         ELSE [result EXCEPT
                 !.color = IF markers.color # JsNull THEN markers.color ELSE @,
                 !.cuePoints = markers.cuePoints,
                 !.loopEntries = markers.loopEntries,
                 !.bpmLock = markers.bpmLock]
    ELSE IF frame.description = "Serato BeatGrid"
    THEN LET beatgrid == parseSeratoBeatGrid(WholeView(frame.data)) IN
         IF ~beatgrid.ok THEN [result EXCEPT !.hasWarnings = TRUE]
         ELSE [result EXCEPT !.beatGridMarkers = beatgrid.markers]
    ELSE result

\* The callback of geobObjects.forEach: the record after one GEOB frame.
geobFrame(result, frame) ==
    IF frame.type # "application/octet-stream" THEN result
    ELSE IF frame.description = "Serato Markers2"
    THEN LET markers == parseSeratorMarkers2(WholeView(frame.data)) IN
         IF ~markers.ok THEN [result EXCEPT !.hasWarnings = TRUE]
         ELSE [result EXCEPT
                 !.color = IF markers.color # JsNull THEN markers.color ELSE @,
                 !.cuePoints = markers.cuePoints,
                 !.loopEntries = markers.loopEntries,
                 !.bpmLock = markers.bpmLock]
    ELSE IF frame.description = "Serato BeatGrid"
    THEN LET beatgrid == parseSeratoBeatGrid(WholeView(frame.data)) IN
         IF ~beatgrid.ok THEN [result EXCEPT !.hasWarnings = TRUE]
         ELSE [result EXCEPT !.beatGridMarkers = beatgrid.markers]
    ELSE result

\* x.toString(16).padStart(2, '0'), in upper case
HexDigit(d) == IF d < 10 THEN 48 + d ELSE 55 + d
Hex2(x) == <<HexDigit(x \div 16), HexDigit(x % 16)>>

\* formatColor: '0x' and the hex digits of the colour without its alpha.
formatColor(color) ==
    LET rgb == IF Len(color) = 3 THEN color ELSE Tail(color) IN
    <<48, 120>> \o Concat([i \in 1..Len(rgb) |-> Hex2(rgb[i])])

\* An attribute whose value is undefined.
UndefinedAttr == [undefined |-> TRUE]

\* Colour: track.color ? formatColor(track.color) : undefined
colourAttribute(track) ==
    IF track.color # JsNull THEN formatColor(track.color) ELSE UndefinedAttr

\* x / 1000 of a 32-bit value, kept as the dividend.
Div1000(x) == [dividend |-> x, divisor |-> 1000]

\* The object generateXml maps one track of the collection to.
trackElement(track) ==
    [attributes |->
        [TrackId |-> track.trackId, Location |-> track.path, Name |-> track.name,
         Colour |-> colourAttribute(track)],
     POSITION_MARK |->
        [i \in 1..Len(track.cuePoints) |->
            [Name |-> track.cuePoints[i].name, Type |-> "0",
             Start |-> Div1000(track.cuePoints[i].positionMs),
             Num |-> track.cuePoints[i].index]]
        \o
        [i \in 1..Len(track.loopEntries) |->
            [Name |-> track.loopEntries[i].name, Type |-> "4",
             Start |-> Div1000(track.loopEntries[i].startMs),
             End |-> Div1000(track.loopEntries[i].endMs),
             Num |-> track.loopEntries[i].index]],
     TEMPO |->
        IF track.beatGridMarkers = JsNull THEN UndefinedAttr
        ELSE [i \in 1..Len(track.beatGridMarkers) |->
                [Inizio |-> track.beatGridMarkers[i].position,
                 Bpm |-> IF track.beatGridMarkers[i].bpm = JsNull THEN UndefinedAttr
                         ELSE track.beatGridMarkers[i].bpm,
                 Battito |-> IF track.beatGridMarkers[i].beatsTillNextMarker = JsNull
                             THEN UndefinedAttr
                             ELSE track.beatGridMarkers[i].beatsTillNextMarker]]]

\* The GEOB frames a file is written with.  kind: "good" (a frame that
\* decodes, sets: what it holds), "bad" (a Serato frame whose decoding
\* fails), "ignored" (another description, or another MIME type).
GeobFrame(type, description, data, kind, sets) ==
    [type |-> type, description |-> description, data |-> data, kind |-> kind,
     sets |-> sets]

GeobFrames ==
    << GeobFrame("application/octet-stream", "Serato Markers2",
                 Markers2Frame(<<1, 2>>, TRUE), "good",
                 ExpectedMarkers2(<<1, 2>>, NoMarkers2)),
       GeobFrame("application/octet-stream", "Serato Markers2",
                 Markers2Frame(<<3, 5, 6>>, FALSE), "good",
                 ExpectedMarkers2(<<3, 5, 6>>, NoMarkers2)),
       \* a COLOR element, then a CUE element of four bytes
       GeobFrame("application/octet-stream", "Serato Markers2",
                 Markers2Frame(<<1, 7>>, TRUE), "bad", <<>>),
       \* not the magic 01 01
       GeobFrame("application/octet-stream", "Serato Markers2",
                 toBase64(<<2, 1, 0>>) \o <<0>>, "bad", <<>>),
       GeobFrame("application/octet-stream", "Serato BeatGrid",
                 BeatGridBytes(U32BE(2), <<1, 2>>, <<0>>), "good",
                 << [position |-> [float32 |-> <<0, 0, 0, 0>>], bpm |-> JsNull,
                     beatsTillNextMarker |-> Num32(4)],
                    [position |-> [float32 |-> <<63, 128, 0, 0>>],
                     bpm |-> [float32 |-> <<66, 240, 0, 0>>],
                     beatsTillNextMarker |-> JsNull] >>),
       \* two markers declared, one record
       GeobFrame("application/octet-stream", "Serato BeatGrid",
                 BeatGridBytes(U32BE(2), <<1>>, <<>>), "bad", <<>>),
       GeobFrame("application/octet-stream", "Serato Overview", <<1, 5, 9>>, "ignored", <<>>),
       GeobFrame("image/png", "Serato Markers2", <<1, 5, 9>>, "ignored", <<>>) >>

MaxFrames == 3

FrameLists == UNION {[1..n -> 1..Len(GeobFrames)] : n \in 0..MaxFrames}

TrackPath == <<47, 109, 47, 97, 49>>                                \* "/m/a1"

InitTrack ==
    /\ CrateIdle
    /\ LoopIdle
    /\ ScanIdle
    /\ BeatIdle
    /\ M2Idle
    /\ FnIdle
    /\ tpc = "frames"
    /\ tframes \in FrameLists
    /\ ti = 0
    /\ tresult = newTrackMetaData(TrackPath, 0)
    /\ txml = NoResult

\* One turn of geobObjects.forEach.
HandleGeobFrame ==
    /\ tpc = "frames"
    /\ ti < Len(tframes)
    /\ tresult' = geobFrame(tresult, GeobFrames[tframes[ti + 1]])
    /\ ti' = ti + 1
    /\ UNCHANGED <<tpc, tframes, txml, crateVars, scanVars, beatVars, m2Vars, fnVars, loopVars>>

\* return result
ReturnMetaData ==
    /\ tpc = "frames"
    /\ ti = Len(tframes)
    /\ tpc' = "returned"
    /\ UNCHANGED <<tframes, ti, tresult, txml, crateVars, scanVars, beatVars, m2Vars, fnVars, loopVars>>

\* generateXml on the record: its TRACK element.
ExportTrack ==
    /\ tpc = "returned"
    /\ txml' = trackElement(tresult)
    /\ tpc' = "exported"
    /\ UNCHANGED <<tframes, ti, tresult, crateVars, scanVars, beatVars, m2Vars, fnVars, loopVars>>

NextTrack == HandleGeobFrame \/ ReturnMetaData \/ ExportTrack

SpecTrack == InitTrack /\ [][NextTrack]_vars

----------------------------------------------------------------------------
(* Claims about the track record and its export *)

\* The record after the frames `frames`, when the frames whose decoding
\* fails set the warning flag and nothing else.
RECURSIVE ExpectedMetaData(_, _)
ExpectedMetaData(frames, acc) ==
    IF frames = <<>> THEN acc
    ELSE LET f == GeobFrames[Head(frames)] IN
         ExpectedMetaData(Tail(frames),
            IF f.kind = "bad" THEN [acc EXCEPT !.hasWarnings = TRUE]
            ELSE IF f.kind = "ignored" THEN acc
            ELSE IF f.description = "Serato BeatGrid"
            THEN [acc EXCEPT !.beatGridMarkers = f.sets]
            ELSE [acc EXCEPT
                    !.color = IF f.sets.color # JsNull THEN f.sets.color ELSE @,
                    !.cuePoints = f.sets.cuePoints,
                    !.loopEntries = f.sets.loopEntries,
                    !.bpmLock = f.sets.bpmLock])

FailingFrameHandled ==
    (/\ tpc = "frames"
     /\ ti < Len(tframes)
     /\ GeobFrames[tframes[ti + 1]].kind = "bad"
     /\ ti' = ti + 1) =>
        tresult' = [tresult EXCEPT !.hasWarnings = TRUE]

\* C11: a Markers2 or BeatGrid frame whose decoding fails leaves every field
\* of the record as it was and sets hasWarnings; the frames after it are
\* still handled, and the record is returned.
C11_FrameFailureIsLocal ==
    /\ [][FailingFrameHandled]_vars
    /\ [](tpc \in {"returned", "exported"} =>
            /\ ti = Len(tframes)
            /\ tresult = ExpectedMetaData(tframes, newTrackMetaData(TrackPath, 0)))

\* A record was returned after a good Markers2 frame, a failing Markers2
\* frame and a good BeatGrid frame.
C11_Witness ==
    /\ tpc = "returned"
    /\ tframes = <<1, 3, 5>>
    /\ tresult.hasWarnings
    /\ Len(tresult.cuePoints) = 1
    /\ tresult.color = <<255, 0, 255, 128>>
    /\ tresult.beatGridMarkers # JsNull

ColourNames == {"Colour", "Color", "Red", "Green", "Blue"}

\* C14: the TRACK element of a track has no Colour attribute set, and none
\* of its position marks has a colour attribute, whatever colours the tags
\* of the track hold.
C14_NoColourExported ==
    tpc = "exported" =>
        /\ txml.attributes.Colour = UndefinedAttr
        /\ \A i \in 1..Len(txml.POSITION_MARK) :
              DOMAIN txml.POSITION_MARK[i] \cap ColourNames = {}

----------------------------------------------------------------------------
(* Claims about failures in the crate scan and about the export *)

CrateFileFails(crateName) == ~WellFormedItems(FileItems[files[crateName]])

Attempted == SubSeq(crateNameList, 1, crateScanProgress)

CrateErrors == SelectSeq(errors, LAMBDA e : "crateName" \in DOMAIN e)

CrateFileName(crate) == Join(crate.name, PercentPercent) \o DotCrate

FailedCrateAddsNothing ==
    (/\ pc = "scan"
     /\ crateScanProgress < Len(crateNameList)
     /\ CrateFileFails(crateNameList[crateScanProgress + 1])
     /\ crateScanProgress' = crateScanProgress + 1) =>
        /\ crateList' = crateList
        /\ trackList' = trackList
        /\ trackPathIndex' = trackPathIndex
        /\ errors' = Append(errors, errors'[Len(errors')])
        /\ errors'[Len(errors')].crateName = crateNameList[crateScanProgress + 1]

OneCrateAtATime == crateScanProgress' \in {crateScanProgress, crateScanProgress + 1}

\* C12: a crate whose parsing fails adds nothing to the crate list, the
\* track list and the index and appends exactly one error; the crates are
\* attempted one by one in list order, each once, the failing ones giving the
\* crate errors and the others the crate list, and the scan ends only when
\* all were attempted.
C12_CrateFailureIsLocal ==
    /\ [][FailedCrateAddsNothing /\ OneCrateAtATime]_vars
    /\ [](pc \in {"scan", "build", "done"} =>
            /\ crateScanProgress <= Len(crateNameList)
            /\ [i \in 1..Len(CrateErrors) |-> CrateErrors[i].crateName]
                 = SelectSeq(Attempted, CrateFileFails)
            /\ [i \in 1..Len(crateList) |-> CrateFileName(crateList[i])]
                 = SelectSeq(Attempted, LAMBDA n : ~CrateFileFails(n)))
    /\ [](pc \in {"build", "done"} => crateScanProgress = Len(crateNameList))

\* The first of two crates failed and the second was loaded.
C12_Witness ==
    /\ pc = "done"
    /\ Len(crateNameList) = 2
    /\ CrateFileFails(crateNameList[1])
    /\ Len(CrateErrors) = 1
    /\ Len(crateList) = 1
    /\ CrateFileName(crateList[1]) = crateNameList[2]
    /\ Len(trackList) = 2

PlaylistNodes == {n \in 1..Len(treeNodes) : treeNodes[n].type = "Playlist"}

\* C18: at export time every index in a playlist's track list is a key of
\* the collection, and every TRACK entry of a playlist is made of a
\* non-empty path.
C18_PlaylistEntriesResolve ==
    pc = "done" =>
        \A n \in PlaylistNodes :
            \A i \in 1..Len(treeNodes[n].tracks) :
                /\ treeNodes[n].tracks[i] \in DOMAIN collection
                /\ xmlPlaylists[n][i] # <<>>

----------------------------------------------------------------------------
(* crateParser.ts: one call of parseCrate on a named file, and one call of
   parseSectionNodes on a file that is one string or one integer section *)

\* The sequences over S of length 0..n
SeqsUpTo(S, n) == UNION {[1..k -> S] : k \in 0..n}

\* File names: a base part of up to MaxBaseLen characters out of "A", "."
\* and "%", and the extension ".crate".
MaxBaseLen == 4

BaseNames == SeqsUpTo({65, 46, 37}, MaxBaseLen)

InitName ==
    /\ CrateIdle
    /\ LoopIdle
    /\ ScanIdle
    /\ BeatIdle
    /\ M2Idle
    /\ TrackIdle
    /\ fpc = "start"
    /\ farg \in {base \o DotCrate : base \in BaseNames}
    /\ fres = NoResult

\* parseCrate on a file of the Subcrates directory that passes the filter of
\* crateNameList and holds a version node and one track.
ParseNamedCrate ==
    /\ fpc = "start"
    /\ EndsWith(farg, DotCrate)
    /\ fres' = parseCrate(SubcratesDir \o farg, ItemBytes(<<1, 2>>))
    /\ fpc' = "done"
    /\ UNCHANGED <<farg, crateVars, scanVars, beatVars, m2Vars, trackVars, loopVars>>

NextName == ParseNamedCrate

SpecName == InitName /\ [][NextName]_vars

\* Payloads of an integer section: up to MaxIntLen bytes.
MaxIntLen == 5

IntPayloads == SeqsUpTo({0, 1, 128, 255}, MaxIntLen) \ {<<>>}

InitInt8 ==
    /\ CrateIdle
    /\ LoopIdle
    /\ ScanIdle
    /\ BeatIdle
    /\ M2Idle
    /\ TrackIdle
    /\ fpc = "start"
    /\ farg \in IntPayloads
    /\ fres = NoResult

\* parseSectionNodes on a file that is one 'brev' section with this payload.
DecodeBrev ==
    /\ fpc = "start"
    /\ LET data == Sec(T_brev, farg) IN fres' = parseSectionNodes(data, rootSection(data))
    /\ fpc' = "done"
    /\ UNCHANGED <<farg, crateVars, scanVars, beatVars, m2Vars, trackVars, loopVars>>

NextInt8 == DecodeBrev

SpecInt8 == InitInt8 /\ [][NextInt8]_vars

\* Payloads of a string section: up to MaxStrLen bytes.
MaxStrLen == 4

StringPayloads == SeqsUpTo({0, 65, 66}, MaxStrLen)

InitString16 ==
    /\ CrateIdle
    /\ LoopIdle
    /\ ScanIdle
    /\ BeatIdle
    /\ M2Idle
    /\ TrackIdle
    /\ fpc = "start"
    /\ farg \in [tag : StringTags, payload : StringPayloads]
    /\ fres = NoResult

\* parseSectionNodes on a file that is one string section with this payload.
DecodeString ==
    /\ fpc = "start"
    /\ LET data == Sec(farg.tag, farg.payload) IN
       fres' = parseSectionNodes(data, rootSection(data))
    /\ fpc' = "done"
    /\ UNCHANGED <<farg, crateVars, scanVars, beatVars, m2Vars, trackVars, loopVars>>

NextString16 == DecodeString

SpecString16 == InitString16 /\ [][NextString16]_vars

----------------------------------------------------------------------------
(* Claims about names and node values *)

BaseOf(fileName) == SubSeq(fileName, 1, Len(fileName) - Len(DotCrate))

\* C13: the Crate's name of a file "<base>.crate" is <base> split on "%%",
\* whatever characters <base> holds, and joining the segments with "%%"
\* gives <base> back.
C13_NameFromFileName ==
    fpc = "done" =>
        /\ fres.ok
        /\ fres.name = Split(BaseOf(farg), PercentPercent)
        /\ Join(fres.name, PercentPercent) = BaseOf(farg)

\* The base-256 digits of a non-negative number, most significant first.
RECURSIVE Digits256(_)
Digits256(n) == IF n = 0 THEN <<>> ELSE Append(Digits256(n \div 256), n % 256)

RECURSIVE StripLeadingZeros(_)
StripLeadingZeros(bytes) ==
    IF bytes # <<>> /\ Head(bytes) = 0 THEN StripLeadingZeros(Tail(bytes)) ELSE bytes

\* C15: the value of a 'brev' node is the big-endian unsigned integer of its
\* payload bytes: it is not negative, and its base-256 digits are the
\* payload bytes, the first byte being the most significant.
C15_Int8BigEndian ==
    fpc = "done" =>
        /\ fres.ok
        /\ Len(fres.nodes) = 1
        /\ fres.nodes[1].value.num >= 0
        /\ Digits256(fres.nodes[1].value.num) = StripLeadingZeros(farg)

\* The complete big-endian 16-bit code units of a payload, and those before
\* the first zero unit.
CodeUnits(payload) ==
    [k \in 1..(Len(payload) \div 2) |-> payload[2 * k - 1] * 256 + payload[2 * k]]

UnitsBeforeZero(units) ==
    LET zeros == {k \in 1..Len(units) : units[k] = 0} IN
    IF zeros = {} THEN units
    ELSE SubSeq(units, 1, (CHOOSE k \in zeros : \A z \in zeros : k <= z) - 1)

\* C16: the value of a string node is the code units of its payload before
\* the first zero unit (all complete units when there is none), for a
\* payload of any length, odd lengths included; decoding does not fail.
C16_String16AnyLength ==
    fpc = "done" =>
        /\ fres.ok
        /\ Len(fres.nodes) = 1
        /\ fres.nodes[1].value = StringValue(UnitsBeforeZero(CodeUnits(farg.payload)))

----------------------------------------------------------------------------
(* trackMetaDataParser.ts: the element loop of parseSeratorMarkers2, turn by
   turn, on a payload with the magic 01 01 *)

MaxLoopElements == 2

LoopElementLists == UNION {[1..n -> 1..Len(Markers2Elements)] : n \in 0..MaxLoopElements}

\* The payload: the elements, and then the empty name ("nul"), nothing
\* ("end"), or the name CUE that runs to the end of the buffer ("name").
LoopPayload(elems, tail) ==
    Markers2Payload(elems, tail = "nul") \o (IF tail = "name" THEN N_CUE ELSE <<>>)

InitLoop ==
    /\ CrateIdle
    /\ ScanIdle
    /\ BeatIdle
    /\ M2Idle
    /\ TrackIdle
    /\ FnIdle
    /\ lpc = "loop"
    /\ lelems \in LoopElementLists
    /\ ltail \in {"nul", "end", "name"}
    /\ lpayload = LoopPayload(lelems, ltail)
    /\ loffset = 2
    /\ lelements = <<>>

\* The loop condition and one turn of the loop.
ElementLoopTurn ==
    /\ lpc = "loop"
    /\ IF ~(loffset < Len(lpayload))
       THEN lpc' = "ended" /\ UNCHANGED <<loffset, lelements>>
       ELSE LET e == readElement(WholeView(lpayload), loffset) IN
            IF ~e.ok THEN lpc' = "thrown" /\ UNCHANGED <<loffset, lelements>>
            ELSE IF e.end THEN lpc' = "ended" /\ UNCHANGED <<loffset, lelements>>
            ELSE /\ loffset' = e.offset
                 /\ lelements' = Append(lelements, e.element)
                 /\ lpc' = "loop"
    /\ UNCHANGED <<lpayload, lelems, ltail, crateVars, scanVars, beatVars, m2Vars,
                   trackVars, fnVars>>

NextLoop == ElementLoopTurn

SpecLoop == InitLoop /\ [][NextLoop]_vars /\ WF_vars(NextLoop)

----------------------------------------------------------------------------
(* Claims about the element loop *)

TurnAdvances ==
    (lpc = "loop" /\ lpc' = "loop") =>
        /\ loffset' >= loffset + 6
        /\ Len(lelements') = Len(lelements) + 1

\* The elements are framed as the loop reads them: their names are ASCII.
FramedElements(elems) == "nonascii" \notin ElementKinds(elems)

\* C17: the element loop terminates; a turn that reads a non-empty name
\* advances the offset by at least 6 bytes; and on a payload of framed
\* elements that ends with an empty name, with the end of the buffer, or
\* with a name that runs to the end of the buffer without NUL, the loop ends
\* normally with the elements in buffer order.
C17_ElementLoopEnds ==
    /\ [][TurnAdvances]_vars
    /\ <>(lpc \in {"ended", "thrown"})
    /\ []((lpc \in {"ended", "thrown"} /\ FramedElements(lelems)) =>
            /\ lpc = "ended"
            /\ [i \in 1..Len(lelements) |-> lelements[i].name]
                 = [i \in 1..Len(lelems) |-> Markers2Elements[lelems[i]].name])

====
